---- MODULE Spec2Model ----
(***************************************************************************)
(* A model of the Dreo light platform, custom_components/dreo/light.py:    *)
(* the light entity DreoLightHA (capability negotiation in __init__, the   *)
(* host-facing reads is_on / brightness / color_temp_kelvin, the command   *)
(* path async_turn_on / async_turn_off and the reconciliation callback     *)
(* _handle_coordinator_update) together with the device object it reads    *)
(* and commands.                                                           *)
(*                                                                         *)
(* Python values are modelled as follows.  Optional[x] is a sequence:      *)
(* None is <<>> and a present value v is <<v>>; a range (lo, hi) is the    *)
(* pair <<lo, hi>>.  A raw attribute of the device object (duck typed) is  *)
(* a record tagged with its Python type.  Floats are exact rationals: a    *)
(* quotient is kept as numerator and denominator and rounded once, with    *)
(* Python's round (half to even).                                          *)
(*                                                                         *)
(* The descriptors modelled configure pydreo_light_attr and leave value_fn *)
(* and set_fn unset, like every entry of SUPPORTED_LIGHT_FEATURES.         *)
(***************************************************************************)
EXTENDS Integers, Sequences, FiniteSets, TLC

VARIABLES
    desc,                    \* entity_description (immutable)
    supported_color_modes,   \* _attr_supported_color_modes
    color_mode,              \* _attr_color_mode
    dev,                     \* the pydreo device object: its raw attributes
    attr_is_on,              \* _attr_is_on
    attr_brightness,         \* _attr_brightness
    attr_color_temp_kelvin,  \* _attr_color_temp_kelvin
    writes,                  \* async_write_ha_state calls of the last coordinator update
    raised,                  \* the exception that update ended with, or "none"
    call,                    \* the async_turn_on / async_turn_off invocation
    other_call,              \* a second invocation, running concurrently
    platform                 \* async_setup_entry: the manager's devices, the
                             \* async_add_entities calls made

vars == <<desc, supported_color_modes, color_mode, dev, attr_is_on,
          attr_brightness, attr_color_temp_kelvin, writes, raised, call,
          other_call, platform>>

----------------------------------------------------------------------------
(* Python values *)

None == <<>>
Some(v) == <<v>>

Max2(a, b) == IF a >= b THEN a ELSE b
Min2(a, b) == IF a <= b THEN a ELSE b

\* Python's round() of the rational num/den (den > 0): to nearest, half to even.
Round(num, den) ==
    LET q == num \div den
        r == num % den
    IN  IF 2 * r < den THEN q
        ELSE IF 2 * r > den THEN q + 1
        ELSE IF q % 2 = 0 THEN q ELSE q + 1

\* Raw attribute values of the device object, tagged with their Python type.
RawNone == [kind |-> "none", num |-> 0]
RawNum(n) == [kind |-> "num", num |-> n]
\* the decimal string of n, e.g. "50"
RawNumStr(n) == [kind |-> "numstr", num |-> n]
\* a string that is no number, e.g. " seventy "
RawStr == [kind |-> "str", num |-> 0]
\* a list, e.g. [90]
RawList == [kind |-> "list", num |-> 0]

\* float(raw): the number, or the exception float() ends with.
Float(raw) ==
    CASE raw.kind \in {"num", "numstr"} -> [err |-> "none", num |-> raw.num]
      [] raw.kind = "str" -> [err |-> "ValueError", num |-> 0]
      [] OTHER -> [err |-> "TypeError", num |-> 0]

\* Raw values of the on/off control attribute.
OnOffAbsent == [kind |-> "absent", b |-> FALSE, s |-> ""]
OnOffBool(b) == [kind |-> "bool", b |-> b, s |-> ""]
OnOffStr(s) == [kind |-> "str", b |-> FALSE, s |-> s]

\* str.lower() on the strings the model uses.
Lower(s) == CASE s = "ON" -> "on" [] s = "On" -> "on" [] s = "OFF" -> "off" [] OTHER -> s

----------------------------------------------------------------------------
(* DreoLightEntityDescription and capability negotiation *)

BrightnessMin == 1
BrightnessMax == 100
ColortempMin == 0
ColortempMax == 100
KelvinMin == 2700
KelvinMax == 6500
HaBrightnessMax == 255

\* Python truthiness of an Optional[int].
Truthy(opt) == opt # None /\ opt[1] # 0

\* The descriptor fields the entity reads.  A command name is modelled by
\* whether it is configured.
Description(bcmd, brange, ccmd, crange, mink, maxk) ==
    [pydreo_brightness_cmd |-> bcmd,
     pydreo_brightness_range |-> brange,
     pydreo_colortemp_cmd |-> ccmd,
     pydreo_colortemp_range |-> crange,
     ha_min_color_temp_kelvin |-> mink,
     ha_max_color_temp_kelvin |-> maxk]

\* SUPPORTED_LIGHT_FEATURES[0], key "light_on".
LightOnDescription ==
    Description(TRUE, <<BrightnessMin, BrightnessMax>>,
                TRUE, <<ColortempMin, ColortempMax>>,
                Some(KelvinMin), Some(KelvinMax))

\* SUPPORTED_LIGHT_FEATURES[1], key "night_light_on".
NightLightDescription == Description(FALSE, None, FALSE, None, None, None)

\* Every combination of configured / absent optional fields.
Descriptions ==
    { Description(bcmd, brange, ccmd, crange, k[1], k[2]) :
        bcmd \in BOOLEAN, brange \in {None, <<BrightnessMin, BrightnessMax>>},
        ccmd \in BOOLEAN, crange \in {None, <<ColortempMin, ColortempMax>>},
        k \in {<<None, None>>, <<Some(KelvinMin), Some(KelvinMax)>>} }

\* A negotiation that prefers brightness over color temperature.
SupportedModes_BrightnessFirst(d) ==
    IF d.pydreo_brightness_cmd THEN {"brightness"}
    ELSE IF d.pydreo_colortemp_cmd
            /\ Truthy(d.ha_min_color_temp_kelvin)
            /\ Truthy(d.ha_max_color_temp_kelvin)
    THEN {"color_temp"}
    ELSE {"onoff"}

\* A negotiation that adds BRIGHTNESS next to COLOR_TEMP.
SupportedModes_Union(d) ==
    LET ct == IF d.pydreo_colortemp_cmd
                 /\ Truthy(d.ha_min_color_temp_kelvin)
                 /\ Truthy(d.ha_max_color_temp_kelvin)
              THEN {"color_temp"} ELSE {}
        br == IF d.pydreo_brightness_cmd THEN ct \cup {"brightness"} ELSE ct
    IN  IF br = {} THEN {"onoff"} ELSE br

\* __init__: "Determine supported color modes".
SupportedModes(d) ==
    LET ct == IF d.pydreo_colortemp_cmd
                 /\ Truthy(d.ha_min_color_temp_kelvin)
                 /\ Truthy(d.ha_max_color_temp_kelvin)
              THEN {"color_temp"} ELSE {}
        br == IF ct = {} /\ d.pydreo_brightness_cmd
              THEN ct \cup {"brightness"} ELSE ct
    IN  IF br = {} THEN {"onoff"} ELSE br

\* __init__: "Set the current color mode based on supported modes".
CurrentColorMode(modes) ==
    IF "color_temp" \in modes THEN "color_temp"
    ELSE IF "brightness" \in modes THEN "brightness"
    ELSE "onoff"

----------------------------------------------------------------------------
(* Host-facing reads.  A read returns [err, val]: the exception it ends     *)
(* with ("none" when it returns) and the value returned.                    *)

Return(v) == [err |-> "none", val |-> v]
Raise(e) == [err |-> e, val |-> None]

\* _get_pydreo_state (value_fn unset, control attribute configured).
GetPydreoState(d) ==
    LET val == IF d.light_on.kind = "absent" THEN OnOffBool(FALSE) ELSE d.light_on
    IN  IF val.kind = "str" THEN Lower(val.s) = "on" ELSE val.b

\* An is_on that returns the cached _attr_is_on (the LightEntity default).
IsOn_Cached(d) == attr_is_on = Some(TRUE)

\* is_on
IsOn(d) == GetPydreoState(d)

\* A brightness scaling that reads a degenerate range as dark.
ToHostBrightness_DegenerateDark(v, range) ==
    LET device_min == range[1]
        device_max == range[2]
        sgn == IF device_max > device_min THEN 1 ELSE -1
        num == sgn * (v - device_min)
        den == sgn * (device_max - device_min)
        cnum == Max2(0, Min2(den, num))
    IN  IF device_max = device_min
        THEN 0
        ELSE Round(cnum * HaBrightnessMax, den)

\* A brightness scaling without the clamp of line 360.
ToHostBrightness_NoClamp(v, range) ==
    LET device_min == range[1]
        device_max == range[2]
        sgn == IF device_max > device_min THEN 1 ELSE -1
        num == sgn * (v - device_min)
        den == sgn * (device_max - device_min)
    IN  IF device_max = device_min
        THEN (IF v >= device_min THEN HaBrightnessMax ELSE 0)
        ELSE Round(num * HaBrightnessMax, den)

\* An availability that does not look at the device object.
Available_BaseOnly(base_available, d) == base_available

\* available, base_available being what super().available returns
\* (DreoBaseDeviceHA); the control attribute is configured.
Available(base_available, d) ==
    base_available /\ d.light_on.kind # "absent"

\* brightness, the scaling of a numeric native value v (lines 354-361).
ToHostBrightness(v, range) ==
    LET device_min == range[1]
        device_max == range[2]
        sgn == IF device_max > device_min THEN 1 ELSE -1
        num == sgn * (v - device_min)          \* val_percentage / 100 = num / den
        den == sgn * (device_max - device_min)
        cnum == Max2(0, Min2(den, num))        \* max(0, min(100, val_percentage))
    IN  IF device_max = device_min
        THEN (IF v >= device_min THEN HaBrightnessMax ELSE 0)
        ELSE Round(cnum * HaBrightnessMax, den)

\* brightness
Brightness(description, modes, d) ==
    IF "brightness" \notin modes THEN Return(None)
    ELSE IF description.pydreo_brightness_cmd
            /\ d.brightness.kind # "none"
            /\ description.pydreo_brightness_range # None
    THEN LET f == Float(d.brightness)
         IN  CASE f.err = "none" ->
                    Return(Some(ToHostBrightness(f.num, description.pydreo_brightness_range)))
               [] f.err = "ValueError" -> Return(None)   \* except ValueError
               [] OTHER -> Raise(f.err)
    ELSE Return(None)

\* A Kelvin scaling without the clamps of lines 385 and 388.
ToHostColorTemp_NoClamp(v, range, min_k, max_k) ==
    LET pct_min == range[1]
        pct_max == range[2]
        sgn == IF pct_max > pct_min THEN 1 ELSE -1
        den == sgn * (pct_max - pct_min)
        num == min_k * den + sgn * (v - pct_min) * (max_k - min_k)
    IN  IF pct_max = pct_min
        THEN (IF v <= pct_min THEN min_k ELSE max_k)
        ELSE Round(num, den)

\* color_temp_kelvin, the scaling of a numeric native value v (lines 377-388).
ToHostColorTemp(v, range, min_k, max_k) ==
    LET pct_min == range[1]
        pct_max == range[2]
        clamped == Max2(pct_min, Min2(pct_max, v))
        sgn == IF pct_max > pct_min THEN 1 ELSE -1
        den == sgn * (pct_max - pct_min)
        \* kelvin = num / den
        num == min_k * den + sgn * (clamped - pct_min) * (max_k - min_k)
        \* max(min_k, min(max_k, kelvin)) on the rational
        inner == IF max_k * den < num THEN max_k * den ELSE num
        outer == IF inner > min_k * den THEN inner ELSE min_k * den
    IN  IF pct_max = pct_min
        THEN (IF v <= pct_min THEN min_k ELSE max_k)
        ELSE Round(outer, den)

\* color_temp_kelvin
ColorTempKelvin(description, modes, d) ==
    IF "color_temp" \notin modes THEN Return(None)
    ELSE IF description.pydreo_colortemp_cmd
            /\ d.colortemp.kind # "none"
            /\ description.pydreo_colortemp_range # None
            /\ Truthy(description.ha_min_color_temp_kelvin)
            /\ Truthy(description.ha_max_color_temp_kelvin)
    THEN LET f == Float(d.colortemp)
         IN  CASE f.err = "none" ->
                    Return(Some(ToHostColorTemp(f.num,
                                    description.pydreo_colortemp_range,
                                    description.ha_min_color_temp_kelvin[1],
                                    description.ha_max_color_temp_kelvin[1])))
               [] f.err = "ValueError" -> Return(None)   \* except ValueError
               [] OTHER -> Raise(f.err)
    ELSE Return(None)

----------------------------------------------------------------------------
(* The command path: the values async_turn_on sends *)

\* homeassistant.util.percentage.states_in_range
StatesInRange(low_high_range) == low_high_range[2] - low_high_range[1] + 1

\* homeassistant.util.percentage.percentage_to_ranged_value, of the
\* percentage pnum/pden: states_in_range * percentage / 100 + offset, as the
\* rational <<numerator, denominator>>.
PercentageToRangedValue(low_high_range, pnum, pden) ==
    LET offset == low_high_range[1] - 1
    IN  <<StatesInRange(low_high_range) * pnum + offset * 100 * pden, 100 * pden>>

\* The brightness handling without its clamp (line 304).
ToDeviceBrightness_NoClamp(ha_brightness, range) ==
    LET ranged == PercentageToRangedValue(range, ha_brightness * 100, HaBrightnessMax)
    IN  Round(ranged[1], ranged[2])

\* async_turn_on, "Brightness handling" (lines 299-304): the native
\* brightness sent for the host brightness ha_brightness.
ToDeviceBrightness(ha_brightness, range) ==
    LET device_min == range[1]
        device_max == range[2]
        \* ha_brightness_pct = (ha_brightness / 255.0) * 100
        ranged == PercentageToRangedValue(range, ha_brightness * 100, HaBrightnessMax)
        device_brightness == Round(ranged[1], ranged[2])
    IN  Max2(device_min, Min2(device_max, device_brightness))

\* The color temperature handling without its clamp (line 326).
ToDeviceColorTemp_NoClamp(ha_kelvin, min_k, max_k, range) ==
    LET pct_min == range[1]
        pct_max == range[2]
    IN  IF max_k = min_k THEN Return(pct_min)
        ELSE IF min_k = None \/ max_k = None THEN Raise("TypeError")
        ELSE LET sgn == IF max_k[1] > min_k[1] THEN 1 ELSE -1
                 den == sgn * (max_k[1] - min_k[1])
                 num == sgn * (ha_kelvin - min_k[1]) * (pct_max - pct_min) + pct_min * den
             IN  Return(Round(num, den))

\* async_turn_on, "Color Temperature handling" (lines 315-326): the native
\* percentage sent for ha_kelvin, or the exception the arithmetic ends with.
\* min_k and max_k are Optional.
ToDeviceColorTemp(ha_kelvin, min_k, max_k, range) ==
    LET pct_min == range[1]
        pct_max == range[2]
    IN  IF max_k = min_k THEN Return(Max2(pct_min, Min2(pct_max, pct_min)))
        ELSE IF min_k = None \/ max_k = None THEN Raise("TypeError")
        ELSE LET sgn == IF max_k[1] > min_k[1] THEN 1 ELSE -1
                 den == sgn * (max_k[1] - min_k[1])
                 \* device_colortemp_pct = num / den
                 num == sgn * (ha_kelvin - min_k[1]) * (pct_max - pct_min) + pct_min * den
                 \* max(pct_min, min(pct_max, device_colortemp_pct))
                 inner == IF pct_max * den < num THEN pct_max * den ELSE num
                 outer == IF inner > pct_min * den THEN inner ELSE pct_min * den
             IN  Return(Round(outer, den))

\* A command handed to the executor: setattr(device, attr, value).
Command(attr, value) == <<attr, value>>

\* _set_pydreo_state with the refresh request of line 289 kept.
SetPydreoState_RequestUpdate(state) ==
    [sent |-> <<Command("light_on", state)>>, request_update |-> 1]

\* _set_pydreo_state(state) (set_fn unset, control attribute configured):
\* the commands handed to the executor and the number of
\* pydreo_manager.request_update calls made.
SetPydreoState(state) ==
    [sent |-> <<Command("light_on", state)>>, request_update |-> 0]

----------------------------------------------------------------------------
(* The device object *)

Device(light_on, brightness, colortemp) ==
    [light_on |-> light_on, brightness |-> brightness, colortemp |-> colortemp]

\* A key the delta does not hold.
DeltaAbsent == [kind |-> "absent", num |-> 0]

\* An update handler that stores whatever value a key of the delta holds.
HandleServerUpdate_StoreAny(d, lighton, brightness, colortemp) ==
    Device(IF lighton.kind = "bool" /\ d.light_on.kind # "absent"
              THEN lighton ELSE d.light_on,
           IF brightness.kind # "absent" THEN brightness ELSE d.brightness,
           IF colortemp.kind # "absent" THEN colortemp ELSE d.colortemp)

\* An update handler that clears an attribute whose key the delta lacks.
HandleServerUpdate_ClearMissing(d, lighton, brightness, colortemp) ==
    Device(IF lighton.kind = "bool" /\ d.light_on.kind # "absent"
              THEN lighton ELSE d.light_on,
           IF brightness.kind = "num" THEN brightness
           ELSE IF brightness.kind = "absent" THEN RawNone ELSE d.brightness,
           IF colortemp.kind = "num" THEN colortemp
           ELSE IF colortemp.kind = "absent" THEN RawNone ELSE d.colortemp)

\* The device's handle_server_update: a key of the delta is stored when its
\* value has the expected type (boolean for on/off, a number for brightness
\* and color temperature) and skipped otherwise.
HandleServerUpdate(d, lighton, brightness, colortemp) ==
    Device(IF lighton.kind = "bool" /\ d.light_on.kind # "absent"
              THEN lighton ELSE d.light_on,
           IF brightness.kind = "num" THEN brightness ELSE d.brightness,
           IF colortemp.kind = "num" THEN colortemp ELSE d.colortemp)

----------------------------------------------------------------------------
(* Bounds of the model *)

\* Native brightness values the server pushes: 0..MaxNative (below and at the
\* bottom of the range) and the top of the range.
MaxNative == 1
BrightnessNatives == 0..MaxNative \cup {BrightnessMax}

\* Native color temperature percentages the server pushes: the top of the
\* range and the MaxColortempBack values below it.
MaxColortempBack == 0
ColortempNatives == { ColortempMax - k : k \in 0..MaxColortempBack }

\* Options of async_turn_on.
BrightnessArgs == {None, Some(128)}
KelvinArgs == {None, Some(3000)}
\* Options of async_turn_off: none, or a brightness and a color temperature.
TurnOffArgs == {<<None, None>>, <<Some(128), Some(3000)>>}

LightOnDeltas == {OnOffAbsent, OnOffBool(TRUE), OnOffBool(FALSE), OnOffStr("on")}
BrightnessDeltas == {DeltaAbsent, RawStr} \cup { RawNum(n) : n \in BrightnessNatives }
ColortempDeltas == {DeltaAbsent, RawList} \cup { RawNum(n) : n \in ColortempNatives }

\* What the control attribute may hold when the entity is built.
InitialLightOn ==
    {OnOffAbsent, OnOffBool(FALSE), OnOffStr("ON"), OnOffStr("off")}

----------------------------------------------------------------------------
(* The entity *)

NoCall ==
    [op |-> "none", pc |-> "idle", brightness |-> None,
     color_temp_kelvin |-> None, sent |-> <<>>, request_update |-> 0,
     result |-> "none"]

\* async_setup_entry has not run (the entity is followed on its own).
NoPlatform == [devices |-> <<>>, pc |-> "none", add_entities |-> <<>>]

\* DreoLightHA.__init__ on the descriptor d and the device object device.
EntityInit(d, device) ==
    /\ desc = d
    /\ dev = device
    /\ supported_color_modes = SupportedModes(d)
    /\ color_mode = CurrentColorMode(SupportedModes(d))
    /\ attr_is_on = None
    /\ attr_brightness = None
    /\ attr_color_temp_kelvin = None
    /\ writes = 0
    /\ raised = "none"
    /\ call = NoCall
    /\ other_call = NoCall
    /\ platform = NoPlatform

\* A freshly loaded device: brightness and color temperature unset.
Init ==
    \E d \in Descriptions, l \in InitialLightOn :
        EntityInit(d, Device(l, RawNone, RawNone))

\* An update that notifies once per attribute that changed.
HandleCoordinatorUpdate_PerAttribute ==
    LET new_is_on == GetPydreoState(dev)
        ch1 == attr_is_on # Some(new_is_on)
        b == IF "brightness" \in supported_color_modes
             THEN Brightness(desc, supported_color_modes, dev)
             ELSE Return(attr_brightness)
        ch2 == b.err = "none" /\ attr_brightness # b.val
        k == IF b.err = "none" /\ "color_temp" \in supported_color_modes
             THEN ColorTempKelvin(desc, supported_color_modes, dev)
             ELSE Return(attr_color_temp_kelvin)
        ch3 == b.err = "none" /\ k.err = "none" /\ attr_color_temp_kelvin # k.val
        err == IF b.err # "none" THEN b.err ELSE k.err
        n(ch) == IF ch THEN 1 ELSE 0
    IN  [is_on |-> Some(new_is_on),
         brightness |-> IF ch2 THEN b.val ELSE attr_brightness,
         color_temp_kelvin |-> IF ch3 THEN k.val ELSE attr_color_temp_kelvin,
         raised |-> err,
         writes |-> IF err = "none" THEN n(ch1) + n(ch2) + n(ch3) ELSE 0]

\* An update that stops at the first attribute it finds changed.
HandleCoordinatorUpdate_FirstChangeOnly ==
    LET new_is_on == GetPydreoState(dev)
        ch1 == attr_is_on # Some(new_is_on)
        b == IF ~ch1 /\ "brightness" \in supported_color_modes
             THEN Brightness(desc, supported_color_modes, dev)
             ELSE Return(attr_brightness)
        ch2 == b.err = "none" /\ attr_brightness # b.val
        k == IF ~ch1 /\ ~ch2 /\ b.err = "none" /\ "color_temp" \in supported_color_modes
             THEN ColorTempKelvin(desc, supported_color_modes, dev)
             ELSE Return(attr_color_temp_kelvin)
        ch3 == b.err = "none" /\ k.err = "none" /\ attr_color_temp_kelvin # k.val
        err == IF b.err # "none" THEN b.err ELSE k.err
    IN  [is_on |-> Some(new_is_on),
         brightness |-> IF ch2 THEN b.val ELSE attr_brightness,
         color_temp_kelvin |-> IF ch3 THEN k.val ELSE attr_color_temp_kelvin,
         raised |-> err,
         writes |-> IF err = "none" /\ (ch1 \/ ch2 \/ ch3) THEN 1 ELSE 0]

\* An update that writes the state whether or not anything changed.
HandleCoordinatorUpdate_AlwaysNotifies ==
    LET new_is_on == GetPydreoState(dev)
        b == IF "brightness" \in supported_color_modes
             THEN Brightness(desc, supported_color_modes, dev)
             ELSE Return(attr_brightness)
        k == IF b.err = "none" /\ "color_temp" \in supported_color_modes
             THEN ColorTempKelvin(desc, supported_color_modes, dev)
             ELSE Return(attr_color_temp_kelvin)
        err == IF b.err # "none" THEN b.err ELSE k.err
    IN  [is_on |-> Some(new_is_on),
         brightness |-> IF b.err = "none" THEN b.val ELSE attr_brightness,
         color_temp_kelvin |-> IF b.err = "none" /\ k.err = "none"
                               THEN k.val ELSE attr_color_temp_kelvin,
         raised |-> err,
         writes |-> IF err = "none" THEN 1 ELSE 0]

\* _handle_coordinator_update, as the record of what it leaves behind.
HandleCoordinatorUpdate ==
    LET new_is_on == GetPydreoState(dev)
        ch1 == attr_is_on # Some(new_is_on)
        b == IF "brightness" \in supported_color_modes
             THEN Brightness(desc, supported_color_modes, dev)
             ELSE Return(attr_brightness)
        ch2 == b.err = "none" /\ attr_brightness # b.val
        k == IF b.err = "none" /\ "color_temp" \in supported_color_modes
             THEN ColorTempKelvin(desc, supported_color_modes, dev)
             ELSE Return(attr_color_temp_kelvin)
        ch3 == b.err = "none" /\ k.err = "none" /\ attr_color_temp_kelvin # k.val
        err == IF b.err # "none" THEN b.err ELSE k.err
    IN  [is_on |-> Some(new_is_on),
         brightness |-> IF ch2 THEN b.val ELSE attr_brightness,
         color_temp_kelvin |-> IF ch3 THEN k.val ELSE attr_color_temp_kelvin,
         raised |-> err,
         writes |-> IF err = "none" /\ (ch1 \/ ch2 \/ ch3) THEN 1 ELSE 0]

CoordinatorUpdate ==
    LET u == HandleCoordinatorUpdate
    IN  /\ attr_is_on' = u.is_on
        /\ attr_brightness' = u.brightness
        /\ attr_color_temp_kelvin' = u.color_temp_kelvin
        /\ raised' = u.raised
        /\ writes' = u.writes
        /\ UNCHANGED <<desc, supported_color_modes, color_mode, dev, call,
                       other_call, platform>>

\* A push message arrives and the device applies it.
ServerUpdate ==
    \E l \in LightOnDeltas, b \in BrightnessDeltas, c \in ColortempDeltas :
        /\ dev' = HandleServerUpdate(dev, l, b, c)
        /\ UNCHANGED <<desc, supported_color_modes, color_mode, attr_is_on,
                       attr_brightness, attr_color_temp_kelvin, writes, raised,
                       call, other_call, platform>>

----------------------------------------------------------------------------
(* async_turn_on / async_turn_off.  Each await of an executor job is a     *)
(* suspension point: the invocation is a sequence of steps, and other       *)
(* callbacks run between them.                                              *)

Finish(c, result) == [c EXCEPT !.pc = "idle", !.result = result]

Send(c, command, pc) == [c EXCEPT !.sent = Append(c.sent, command), !.pc = pc]

\* Lines 314-332, run when the invocation c resumes: the color temperature
\* command is sent, or the invocation ends.
ColorTempHandling(c) ==
    IF desc.pydreo_colortemp_cmd /\ c.color_temp_kelvin # None
    THEN IF desc.pydreo_colortemp_range = None
         THEN Finish(c, "TypeError")     \* pct_min, pct_max = None
         ELSE LET v == ToDeviceColorTemp(c.color_temp_kelvin[1],
                                         desc.ha_min_color_temp_kelvin,
                                         desc.ha_max_color_temp_kelvin,
                                         desc.pydreo_colortemp_range)
              IN  IF v.err # "none" THEN Finish(c, v.err)
                  ELSE Send(c, Command("colortemp", v.val), "colortemp_sent")
    ELSE Finish(c, "ok")

\* A brightness handling that sends a brightness whether or not one was asked.
BrightnessHandling_AlwaysSends(c) ==
    IF desc.pydreo_brightness_cmd /\ desc.pydreo_brightness_range # None
    THEN Send(c, Command("brightness",
                         ToDeviceBrightness(IF c.brightness = None
                                            THEN HaBrightnessMax ELSE c.brightness[1],
                                            desc.pydreo_brightness_range)),
              "brightness_sent")
    ELSE ColorTempHandling(c)

\* A brightness handling that goes straight to the color temperature.
BrightnessHandling_Skipped(c) == ColorTempHandling(c)

\* Lines 297-310, run when the invocation c resumes from the on/off command:
\* the brightness command is sent, or the color temperature handling runs.
BrightnessHandling(c) ==
    IF desc.pydreo_brightness_cmd /\ c.brightness # None
    THEN IF desc.pydreo_brightness_range = None
         THEN Finish(c, "TypeError")     \* device_min, device_max = None
         ELSE Send(c, Command("brightness",
                              ToDeviceBrightness(c.brightness[1],
                                                 desc.pydreo_brightness_range)),
                   "brightness_sent")
    ELSE ColorTempHandling(c)

CallStep(c) ==
    /\ call' = c
    /\ UNCHANGED <<desc, supported_color_modes, color_mode, dev, attr_is_on,
                   attr_brightness, attr_color_temp_kelvin, writes, raised,
                   other_call, platform>>

\* async_turn_on(**kwargs) up to its first await: _set_pydreo_state(True)
\* hands setattr(device, <control attribute>, True) to the executor.
TurnOn ==
    /\ call.pc = "idle"
    /\ \E b \in BrightnessArgs, k \in KelvinArgs :
           CallStep([op |-> "turn_on", pc |-> "on_sent", brightness |-> b,
                     color_temp_kelvin |-> k,
                     sent |-> SetPydreoState(TRUE).sent,
                     request_update |-> SetPydreoState(TRUE).request_update,
                     result |-> "running"])

\* The brightness handling with the optimistic write of line 311 kept.
TurnOnBrightness_Optimistic ==
    /\ call.op = "turn_on" /\ call.pc = "on_sent"
    /\ call' = BrightnessHandling(call)
    /\ attr_brightness' = IF Len(call'.sent) = 2 /\ call'.sent[2][1] = "brightness"
                          THEN call.brightness ELSE attr_brightness
    /\ UNCHANGED <<desc, supported_color_modes, color_mode, dev, attr_is_on,
                   attr_color_temp_kelvin, writes, raised, other_call, platform>>

\* async_turn_on resumes after the on/off command.
TurnOnBrightness ==
    /\ call.op = "turn_on" /\ call.pc = "on_sent"
    /\ CallStep(BrightnessHandling(call))

\* async_turn_on resumes after the brightness command.
TurnOnColorTemp ==
    /\ call.op = "turn_on" /\ call.pc = "brightness_sent"
    /\ CallStep(ColorTempHandling(call))

\* async_turn_on resumes after the color temperature command and returns.
TurnOnReturn ==
    /\ call.op = "turn_on" /\ call.pc = "colortemp_sent"
    /\ CallStep(Finish(call, "ok"))

\* async_turn_off(**kwargs) up to its await: _set_pydreo_state(False).  The
\* options are accepted and not looked at.
TurnOff ==
    /\ call.pc = "idle"
    /\ \E kwargs \in TurnOffArgs :
           CallStep([op |-> "turn_off", pc |-> "off_sent", brightness |-> kwargs[1],
                     color_temp_kelvin |-> kwargs[2],
                     sent |-> SetPydreoState(FALSE).sent,
                     request_update |-> SetPydreoState(FALSE).request_update,
                     result |-> "running"])

\* async_turn_off resumes and returns.
TurnOffReturn ==
    /\ call.op = "turn_off" /\ call.pc = "off_sent"
    /\ CallStep(Finish(call, "ok"))

Next ==
    \/ CoordinatorUpdate
    \/ ServerUpdate
    \/ TurnOn
    \/ TurnOnBrightness
    \/ TurnOnColorTemp
    \/ TurnOnReturn
    \/ TurnOff
    \/ TurnOffReturn

Spec == Init /\ [][Next]_vars

----------------------------------------------------------------------------
(* The conversions on their own: one async_turn_on with a brightness on a   *)
(* brightness-only light, for every host brightness and a family of native  *)
(* ranges, and the device then holding the value it was sent.               *)

MaxRangeLo == 2
MaxRangeSpan == 4

\* The range of SUPPORTED_LIGHT_FEATURES and the ranges (lo, lo + span).
MapperRanges ==
    {<<BrightnessMin, BrightnessMax>>}
        \cup { <<lo, lo + span>> : lo \in 0..MaxRangeLo, span \in 1..MaxRangeSpan }

InitMapper ==
    \E r \in MapperRanges :
        EntityInit(Description(TRUE, r, FALSE, None, None, None),
                   Device(OnOffBool(FALSE), RawNone, RawNone))

\* async_turn_on(brightness=b), up to its first await.
MapperTurnOn ==
    /\ call.op = "none"
    /\ \E b \in 0..HaBrightnessMax :
           CallStep([op |-> "turn_on", pc |-> "on_sent", brightness |-> Some(b),
                     color_temp_kelvin |-> None,
                     sent |-> SetPydreoState(TRUE).sent,
                     request_update |-> SetPydreoState(TRUE).request_update,
                     result |-> "running"])

\* The server reports the brightness the invocation set.
MapperReport ==
    /\ call.result = "ok"
    /\ Len(call.sent) = 2
    /\ dev' = HandleServerUpdate(dev, OnOffAbsent, RawNum(call.sent[2][2]), DeltaAbsent)
    /\ UNCHANGED <<desc, supported_color_modes, color_mode, attr_is_on,
                   attr_brightness, attr_color_temp_kelvin, writes, raised,
                   call, other_call, platform>>

NextMapper ==
    \/ MapperTurnOn
    \/ TurnOnBrightness
    \/ TurnOnColorTemp
    \/ MapperReport
    \/ CoordinatorUpdate

SpecMapper == InitMapper /\ [][NextMapper]_vars

----------------------------------------------------------------------------
(* The reads on every raw value a device attribute may hold: the entity is  *)
(* built on a device whose brightness and colortemp attributes hold a       *)
(* number, a numeric string, another string, a list or None.                *)

RawValues == {RawNone, RawNum(ColortempMax), RawNumStr(ColortempMax), RawStr, RawList}

InitRaw ==
    \E d \in Descriptions, l \in InitialLightOn, b \in RawValues, c \in RawValues :
        EntityInit(d, Device(l, b, c))

NextRaw ==
    \/ CoordinatorUpdate
    \/ ServerUpdate

SpecRaw == InitRaw /\ [][NextRaw]_vars

----------------------------------------------------------------------------
(* Pushes and coordinator updates on their own, from a freshly loaded       *)
(* device.                                                                  *)

NextPush ==
    \/ ServerUpdate
    \/ CoordinatorUpdate

SpecPush == Init /\ [][NextPush]_vars

----------------------------------------------------------------------------
(* Degenerate ranges: lights whose native brightness range, native color    *)
(* temperature range or Kelvin range has min = max, commanded and read.     *)

MaxDegenerate == 2

DegenerateDescriptions ==
    { Description(TRUE, <<m, m>>, FALSE, None, None, None) : m \in 0..MaxDegenerate }
        \cup { Description(FALSE, None, TRUE, <<p, p>>, Some(KelvinMin), Some(k)) :
                  p \in 0..MaxDegenerate, k \in {KelvinMin, KelvinMax} }
        \cup { Description(FALSE, None, TRUE, <<ColortempMin, ColortempMax>>,
                           Some(KelvinMin), Some(KelvinMin)) }

\* Native values below, at and above the degenerate ranges.
DegenerateNatives == (-1)..(MaxDegenerate + 1) \cup {ColortempMax}

DegenerateBrightnessArgs == {None, Some(0), Some(128), Some(HaBrightnessMax)}
DegenerateKelvinArgs ==
    {None, Some(KelvinMin - 700), Some(KelvinMin), Some(KelvinMax), Some(KelvinMax + 500)}

InitDegenerate ==
    \E d \in DegenerateDescriptions :
        EntityInit(d, Device(OnOffBool(FALSE), RawNone, RawNone))

\* async_turn_on(**kwargs), up to its first await.
DegenerateTurnOn ==
    /\ call.pc = "idle"
    /\ \E b \in DegenerateBrightnessArgs, k \in DegenerateKelvinArgs :
           CallStep([op |-> "turn_on", pc |-> "on_sent", brightness |-> b,
                     color_temp_kelvin |-> k,
                     sent |-> SetPydreoState(TRUE).sent,
                     request_update |-> SetPydreoState(TRUE).request_update,
                     result |-> "running"])

\* A push reporting the native value v for brightness and color temperature.
DegeneratePush ==
    \E v \in DegenerateNatives :
        /\ dev' = HandleServerUpdate(dev, OnOffAbsent, RawNum(v), RawNum(v))
        /\ UNCHANGED <<desc, supported_color_modes, color_mode, attr_is_on,
                       attr_brightness, attr_color_temp_kelvin, writes, raised,
                       call, other_call, platform>>

NextDegenerate ==
    \/ DegenerateTurnOn
    \/ TurnOnBrightness
    \/ TurnOnColorTemp
    \/ TurnOnReturn
    \/ DegeneratePush
    \/ CoordinatorUpdate

SpecDegenerate == InitDegenerate /\ [][NextDegenerate]_vars

----------------------------------------------------------------------------
(* Color temperature over a family of native and Kelvin ranges: the value   *)
(* async_turn_on sends (SpecKelvin) and the value color_temp_kelvin reads    *)
(* (SpecKelvinRead).                                                        *)

MaxPctLo == 1
MaxPctSpan == 3
MaxKelvinWidth == 2
MaxKelvinSteps == 42

\* Native ranges: that of SUPPORTED_LIGHT_FEATURES and the ranges
\* (lo, lo + span), span 0 included.
ColortempRanges ==
    {<<ColortempMin, ColortempMax>>}
        \cup { <<lo, lo + span>> : lo \in 0..MaxPctLo, span \in 0..MaxPctSpan }

\* Kelvin ranges with min < max: that of SUPPORTED_LIGHT_FEATURES and narrow
\* ones.
KelvinRanges ==
    {<<KelvinMin, KelvinMax>>}
        \cup { <<KelvinMin, KelvinMin + 100 * j>> : j \in 1..MaxKelvinWidth }

\* Kelvin values asked for: below, across and above the ranges.
KelvinRequests ==
    { KelvinMin - 200 + 100 * i : i \in 0..MaxKelvinSteps }
        \cup {KelvinMin - 1, KelvinMin + 1, KelvinMax - 1, KelvinMax + 1}

\* Native percentages the device may report: around the small ranges, and
\* inside, at the ends of and beyond the range of SUPPORTED_LIGHT_FEATURES.
ColortempReports ==
    (-1)..(MaxPctLo + MaxPctSpan + 1)
        \cup {ColortempMax \div 2, ColortempMax - 1, ColortempMax, ColortempMax + 1}

ColortempDescription(range, kelvin) ==
    Description(FALSE, None, TRUE, range, Some(kelvin[1]), Some(kelvin[2]))

InitKelvin ==
    \E r \in ColortempRanges, k \in KelvinRanges :
        EntityInit(ColortempDescription(r, k),
                   Device(OnOffBool(FALSE), RawNone, RawNone))

\* async_turn_on(color_temp_kelvin=k), up to its first await.
KelvinTurnOn ==
    /\ call.pc = "idle"
    /\ \E k \in KelvinRequests :
           CallStep([op |-> "turn_on", pc |-> "on_sent", brightness |-> None,
                     color_temp_kelvin |-> Some(k),
                     sent |-> SetPydreoState(TRUE).sent,
                     request_update |-> SetPydreoState(TRUE).request_update,
                     result |-> "running"])

NextKelvin ==
    \/ KelvinTurnOn
    \/ TurnOnBrightness
    \/ TurnOnReturn

SpecKelvin == InitKelvin /\ [][NextKelvin]_vars

InitKelvinRead ==
    \E r \in ColortempRanges, k \in KelvinRanges \cup {<<KelvinMin, KelvinMin>>} :
        EntityInit(ColortempDescription(r, k),
                   Device(OnOffBool(FALSE), RawNone, RawNone))

\* A push with or without a color temperature, valid or not.
ColortempPush ==
    \E l \in {OnOffAbsent, OnOffBool(TRUE)},
       c \in {DeltaAbsent, RawList} \cup { RawNum(n) : n \in ColortempReports } :
        /\ dev' = HandleServerUpdate(dev, l, DeltaAbsent, c)
        /\ UNCHANGED <<desc, supported_color_modes, color_mode, attr_is_on,
                       attr_brightness, attr_color_temp_kelvin, writes, raised,
                       call, other_call, platform>>

NextKelvinRead ==
    \/ ColortempPush
    \/ CoordinatorUpdate

SpecKelvinRead == InitKelvinRead /\ [][NextKelvinRead]_vars

----------------------------------------------------------------------------
(* The brightness conversions over whole ranges: one async_turn_on with a   *)
(* brightness on a brightness-only light, for every host brightness, while  *)
(* the device reports native values inside and outside its range.           *)

\* How far outside the native range a reported brightness lies.
MaxOutside == 2

BrightnessReports(range) == (range[1] - MaxOutside)..(range[2] + MaxOutside)

\* A push reporting the native brightness v.
BrightnessPush ==
    \E v \in BrightnessReports(desc.pydreo_brightness_range) :
        /\ dev' = HandleServerUpdate(dev, OnOffAbsent, RawNum(v), DeltaAbsent)
        /\ UNCHANGED <<desc, supported_color_modes, color_mode, attr_is_on,
                       attr_brightness, attr_color_temp_kelvin, writes, raised,
                       call, other_call, platform>>

NextBrightness ==
    \/ MapperTurnOn
    \/ TurnOnBrightness
    \/ TurnOnColorTemp
    \/ BrightnessPush

SpecBrightness == InitMapper /\ [][NextBrightness]_vars

----------------------------------------------------------------------------
(* Two invocations on one entity, interleaved at their awaits with each     *)
(* other and with coordinator updates; an executor job may fail, and the    *)
(* exception then leaves the invocation at the await.                       *)

SequenceDescriptions ==
    { LightOnDescription,
      NightLightDescription,
      Description(TRUE, <<BrightnessMin, BrightnessMax>>, FALSE, None, None, None),
      Description(TRUE, None, TRUE, <<ColortempMin, ColortempMax>>,
                  Some(KelvinMin), Some(KelvinMax)) }

InitSequence ==
    \E d \in SequenceDescriptions :
        EntityInit(d, Device(OnOffBool(FALSE), RawNone, RawNone))

\* The executor job the invocation awaits raises: the await re-raises and
\* async_turn_on / async_turn_off ends there.
TransportFails ==
    /\ call.pc # "idle"
    /\ CallStep(Finish(call, "TransportError"))

OtherCallStep(c) ==
    /\ other_call' = c
    /\ UNCHANGED <<desc, supported_color_modes, color_mode, dev, attr_is_on,
                   attr_brightness, attr_color_temp_kelvin, writes, raised,
                   call, platform>>

\* Another async_turn_on(**kwargs) on the same entity, up to its first await.
OtherTurnOn ==
    /\ other_call.pc = "idle"
    /\ \E b \in BrightnessArgs, k \in KelvinArgs :
           OtherCallStep([op |-> "turn_on", pc |-> "on_sent", brightness |-> b,
                          color_temp_kelvin |-> k,
                          sent |-> SetPydreoState(TRUE).sent,
                          request_update |-> SetPydreoState(TRUE).request_update,
                          result |-> "running"])

\* Another async_turn_off() on the same entity, up to its await.
OtherTurnOff ==
    /\ other_call.pc = "idle"
    /\ OtherCallStep([op |-> "turn_off", pc |-> "off_sent", brightness |-> None,
                      color_temp_kelvin |-> None,
                      sent |-> SetPydreoState(FALSE).sent,
                      request_update |-> SetPydreoState(FALSE).request_update,
                      result |-> "running"])

\* The other invocation resumes from its await and runs to the next one.
OtherResume ==
    /\ other_call.pc # "idle"
    /\ OtherCallStep(IF other_call.pc = "on_sent" THEN BrightnessHandling(other_call)
                     ELSE IF other_call.pc = "brightness_sent"
                          THEN ColorTempHandling(other_call)
                          ELSE Finish(other_call, "ok"))

\* The executor job the other invocation awaits raises.
OtherTransportFails ==
    /\ other_call.pc # "idle"
    /\ OtherCallStep(Finish(other_call, "TransportError"))

NextSequence ==
    \/ TurnOn
    \/ TurnOnBrightness
    \/ TurnOnColorTemp
    \/ TurnOnReturn
    \/ TurnOff
    \/ TurnOffReturn
    \/ TransportFails
    \/ OtherTurnOn
    \/ OtherTurnOff
    \/ OtherResume
    \/ OtherTransportFails
    \/ CoordinatorUpdate

SpecSequence == InitSequence /\ [][NextSequence]_vars

----------------------------------------------------------------------------
(* Platform setup: async_setup_entry over the devices of the manager.  A    *)
(* manager device is the set of attribute names the device object has; an    *)
(* entity created is the pair of its device (the index in the manager's      *)
(* list) and the key of its light feature.                                   *)

MaxDevices == 3

\* SUPPORTED_LIGHT_FEATURES: the key and the control attribute of each entry
\* (value_fn and set_fn are unset in both).
SupportedLightFeatures ==
    << [key |-> "light_on", pydreo_light_attr |-> "light_on"],
       [key |-> "night_light_on", pydreo_light_attr |-> "ledpotkepton"] >>

\* hasattr(pydreo_device, attr)
HasAttr(pydreo_device, attr) == attr \in pydreo_device

\* The loops of lines 153-164: light_entities, in the order appended.
LightEntities(devices) ==
    LET n == Len(SupportedLightFeatures)
        pairs == [i \in 1..(Len(devices) * n) |->
                     [device |-> ((i - 1) \div n) + 1,
                      description |-> ((i - 1) % n) + 1]]
        Supported(pr) ==
            HasAttr(devices[pr.device],
                    SupportedLightFeatures[pr.description].pydreo_light_attr)
        created == SelectSeq(pairs, Supported)
    IN  [j \in 1..Len(created) |->
            [device |-> created[j].device,
             key |-> SupportedLightFeatures[created[j].description].key]]

\* A setup that calls async_add_entities whatever it found.
AsyncSetupEntry_AlwaysCalls(devices) == <<LightEntities(devices)>>

\* async_setup_entry: the async_add_entities calls it makes, each the list
\* of entities passed.
AsyncSetupEntry(devices) ==
    LET light_entities == LightEntities(devices)
    IN  IF light_entities # <<>> THEN <<light_entities>> ELSE <<>>

\* The device objects a manager may hold.
DeviceKinds == SUBSET {"light_on", "ledpotkepton"}

ManagerDevices ==
    UNION { [1..n -> DeviceKinds] : n \in 0..MaxDevices }

\* The platform is about to be set up; no entity exists yet (the entity
\* variables hold the values of an entity not looked at).
InitSetup ==
    /\ \E devices \in ManagerDevices :
           platform = [devices |-> devices, pc |-> "pending", add_entities |-> <<>>]
    /\ desc = NightLightDescription
    /\ dev = Device(OnOffAbsent, RawNone, RawNone)
    /\ supported_color_modes = SupportedModes(NightLightDescription)
    /\ color_mode = CurrentColorMode(SupportedModes(NightLightDescription))
    /\ attr_is_on = None
    /\ attr_brightness = None
    /\ attr_color_temp_kelvin = None
    /\ writes = 0
    /\ raised = "none"
    /\ call = NoCall
    /\ other_call = NoCall

SetupEntry ==
    /\ platform.pc = "pending"
    /\ platform' = [platform EXCEPT
                       !.pc = "done",
                       !.add_entities = AsyncSetupEntry(platform.devices)]
    /\ UNCHANGED <<desc, supported_color_modes, color_mode, dev, attr_is_on,
                   attr_brightness, attr_color_temp_kelvin, writes, raised,
                   call, other_call>>

NextSetup == SetupEntry

SpecSetup == InitSetup /\ [][NextSetup]_vars

----------------------------------------------------------------------------
(* Claims *)

Modes == {"onoff", "brightness", "color_temp"}

\* The cached values the entity publishes.
Published == <<attr_is_on, attr_brightness, attr_color_temp_kelvin>>

\* The same values recomputed from the device through the entity's reads.
Recomputed ==
    <<Some(IsOn(dev)),
      Brightness(desc, supported_color_modes, dev).val,
      ColorTempKelvin(desc, supported_color_modes, dev).val>>

\* C1: a coordinator update emits the state-changed notification exactly
\* once when on/off, brightness or color temperature, recomputed from the
\* device through the entity's reads, differs from the published cached
\* value, and not at all otherwise; never more than once per update.
C1_NotifyOnceIffChanged ==
    [][CoordinatorUpdate =>
          writes' = IF Published # Recomputed THEN 1 ELSE 0]_vars

\* C1, reached: an update that published on/off and a brightness together
\* emitted one notification.
C1_Witness ==
    /\ writes = 1
    /\ attr_is_on = Some(TRUE)
    /\ attr_brightness = Some(HaBrightnessMax)

\* C2: no step of async_turn_on or async_turn_off (nor a push) changes the
\* published cached values or emits a notification; they change only in
\* _handle_coordinator_update.
C2_CommandPathWritesNothing ==
    [][~CoordinatorUpdate => UNCHANGED <<Published, writes>>]_vars

\* C2, reached: async_turn_on with a brightness and a color temperature has
\* returned, both commands sent, and nothing is published.
C2_Witness ==
    /\ call.op = "turn_on" /\ call.result = "ok"
    /\ Len(call.sent) = 3
    /\ Published = <<None, None, None>>

\* C3 as stated: both commands configured gives {COLOR_TEMP}, only the
\* brightness command gives {BRIGHTNESS}, neither gives {ONOFF}.
C3_Original ==
    /\ desc.pydreo_brightness_cmd /\ desc.pydreo_colortemp_cmd
          => supported_color_modes = {"color_temp"}
    /\ desc.pydreo_brightness_cmd /\ ~desc.pydreo_colortemp_cmd
          => supported_color_modes = {"brightness"}
    /\ ~desc.pydreo_brightness_cmd /\ ~desc.pydreo_colortemp_cmd
          => supported_color_modes = {"onoff"}

\* Both Kelvin bounds of the descriptor are set (and not 0).
KelvinBoundsSet(d) ==
    Truthy(d.ha_min_color_temp_kelvin) /\ Truthy(d.ha_max_color_temp_kelvin)

\* C3 amended: both commands and both Kelvin bounds configured gives
\* {COLOR_TEMP} exactly; both commands with a Kelvin bound absent gives
\* {BRIGHTNESS}; only the brightness command gives {BRIGHTNESS}; neither
\* command gives {ONOFF}.
C3_Negotiation ==
    /\ desc.pydreo_brightness_cmd /\ desc.pydreo_colortemp_cmd /\ KelvinBoundsSet(desc)
          => supported_color_modes = {"color_temp"}
    /\ desc.pydreo_brightness_cmd /\ desc.pydreo_colortemp_cmd /\ ~KelvinBoundsSet(desc)
          => supported_color_modes = {"brightness"}
    /\ desc.pydreo_brightness_cmd /\ ~desc.pydreo_colortemp_cmd
          => supported_color_modes = {"brightness"}
    /\ ~desc.pydreo_brightness_cmd /\ ~desc.pydreo_colortemp_cmd
          => supported_color_modes = {"onoff"}

\* C3, reached: the entity of the "light_on" feature, both commands and the
\* Kelvin bounds configured, negotiated {COLOR_TEMP}.
C3_Witness ==
    /\ desc = LightOnDescription
    /\ supported_color_modes = {"color_temp"}

\* C4: the supported-mode set holds exactly one of ONOFF, BRIGHTNESS,
\* COLOR_TEMP, the color mode is that member, and no later step changes
\* either.
C4_SingleModeForever ==
    /\ [](/\ supported_color_modes \subseteq Modes
          /\ Cardinality(supported_color_modes) = 1
          /\ color_mode \in supported_color_modes)
    /\ [][UNCHANGED <<supported_color_modes, color_mode>>]_vars

\* C4, reached: a brightness light after a completed async_turn_on and a
\* coordinator update that notified.
C4_Witness ==
    /\ color_mode = "brightness"
    /\ call.op = "turn_on" /\ call.result = "ok"
    /\ writes = 1

\* C5: with a brightness command and range configured, the brightness read
\* is the conversion of the device's numeric native brightness, in 0..255,
\* and null only when the native value is null; also for a COLOR_TEMP light.
\* (The coordinator update publishes what this read returns, line 422.)
C5_BrightnessReadWhenConfigured ==
    desc.pydreo_brightness_cmd /\ desc.pydreo_brightness_range # None
        => LET read == Brightness(desc, supported_color_modes, dev)
           IN  IF dev.brightness.kind = "num"
               THEN /\ read = Return(Some(ToHostBrightness(dev.brightness.num,
                                              desc.pydreo_brightness_range)))
                    /\ read.val[1] \in 0..HaBrightnessMax
               ELSE read = Return(None)

\* The commands of the invocation c for the attribute attr.
Sent(c, attr) == { i \in 1..Len(c.sent) : c.sent[i][1] = attr }

\* C10: an async_turn_on option the supported-mode set does not cover
\* (a brightness on an ONOFF light, a color temperature on a light that is
\* not COLOR_TEMP) issues no command for that option and does not make the
\* call fail, and the on/off = true command is issued.
C10_UnsupportedOptionIgnored ==
    call.op = "turn_on" =>
        /\ call.sent[1] = Command("light_on", TRUE)
        /\ call.brightness # None /\ supported_color_modes = {"onoff"}
              => Sent(call, "brightness") = {}
        /\ call.color_temp_kelvin # None /\ "color_temp" \notin supported_color_modes
              => Sent(call, "colortemp") = {}
        /\ (\/ call.brightness # None /\ supported_color_modes = {"onoff"}
            \/ call.color_temp_kelvin # None /\ "color_temp" \notin supported_color_modes)
              => call.result # "TypeError"

\* The absolute difference.
Dist(a, b) == IF a >= b THEN a - b ELSE b - a

\* The host brightness of the one invocation of SpecMapper.
HostBrightnessAsked == call.brightness[1]

\* The native brightness that invocation sent.
NativeBrightnessSent == call.sent[2][2]

\* SpecMapper: the invocation has sent its brightness command.
BrightnessWasSent == call.op = "turn_on" /\ Len(call.sent) = 2

\* C6: for the native range (1,100), the value sent for host brightness b,
\* read back through the brightness read, is within 1 of b.
C6_RoundTrip ==
    (/\ BrightnessWasSent
     /\ desc.pydreo_brightness_range = <<BrightnessMin, BrightnessMax>>
     /\ dev.brightness = RawNum(NativeBrightnessSent))
    => Dist(Brightness(desc, supported_color_modes, dev).val[1],
            HostBrightnessAsked) <= 1

\* C7: the native brightness sent for b and the range (min,max) is
\* round((b/255) * (max-min) + min), clamped to [min,max].
C7_LinearOntoRange ==
    BrightnessWasSent =>
        LET lo == desc.pydreo_brightness_range[1]
            hi == desc.pydreo_brightness_range[2]
        IN  NativeBrightnessSent =
                Max2(lo, Min2(hi, Round(HostBrightnessAsked * (hi - lo)
                                           + lo * HaBrightnessMax,
                                        HaBrightnessMax)))

\* C8: with the range (1,100), host brightness 0 sends 1, 255 sends 100, and
\* every b in 0..255 sends a value in [1,100].
C8_EndPoints ==
    BrightnessWasSent /\ desc.pydreo_brightness_range = <<BrightnessMin, BrightnessMax>>
        => /\ NativeBrightnessSent \in BrightnessMin..BrightnessMax
           /\ HostBrightnessAsked = 0 => NativeBrightnessSent = BrightnessMin
           /\ HostBrightnessAsked = HaBrightnessMax => NativeBrightnessSent = BrightnessMax

\* C8, reached: host brightness 0 was sent as native 1.
C8_Witness ==
    /\ BrightnessWasSent
    /\ desc.pydreo_brightness_range = <<BrightnessMin, BrightnessMax>>
    /\ HostBrightnessAsked = 0
    /\ NativeBrightnessSent = BrightnessMin

\* C9: for every raw value the device holds for brightness and color
\* temperature, the reads and the coordinator update end without raising,
\* and a value that is no number is read as null.
C9_ReadsNeverRaise ==
    LET b == Brightness(desc, supported_color_modes, dev)
        k == ColorTempKelvin(desc, supported_color_modes, dev)
    IN  /\ b.err = "none"
        /\ k.err = "none"
        /\ raised = "none"
        /\ dev.brightness.kind \in {"str", "list"} => b.val = None
        /\ dev.colortemp.kind \in {"str", "list"} => k.val = None

\* async_turn_on was given a brightness and a color temperature on a light
\* that configures both commands.
BothRequested ==
    /\ call.op = "turn_on"
    /\ call.brightness # None /\ call.color_temp_kelvin # None
    /\ desc.pydreo_brightness_cmd /\ desc.pydreo_colortemp_cmd

\* C11: async_turn_on with a brightness and a color temperature, on a light
\* that configures both commands, ends having issued one brightness command
\* and one color temperature command, the brightness value a function of the
\* brightness option and the brightness range, the color temperature value a
\* function of the Kelvin option and the Kelvin and percentage ranges.
C11_BothAppliedIndependently ==
    BothRequested /\ call.pc = "idle" =>
        /\ Cardinality(Sent(call, "brightness")) = 1
        /\ Cardinality(Sent(call, "colortemp")) = 1
        /\ call.sent[2] = Command("brightness",
                                  ToDeviceBrightness(call.brightness[1],
                                                     desc.pydreo_brightness_range))
        /\ call.sent[3] = Command("colortemp",
                                  ToDeviceColorTemp(call.color_temp_kelvin[1],
                                                    desc.ha_min_color_temp_kelvin,
                                                    desc.ha_max_color_temp_kelvin,
                                                    desc.pydreo_colortemp_range).val)

\* C12: async_turn_on without options issues exactly one transport call,
\* on/off = True; async_turn_off, whatever its options, issues exactly one,
\* on/off = False; neither issues a brightness or color temperature command.
C12_OnOffOnly ==
    /\ call.op = "turn_on" /\ call.brightness = None /\ call.color_temp_kelvin = None
          => call.sent = <<Command("light_on", TRUE)>>
    /\ call.op = "turn_off" => call.sent = <<Command("light_on", FALSE)>>

\* C12, reached: async_turn_off given a brightness and a color temperature,
\* on a light that configures both commands, has returned with its one call.
C12_Witness ==
    /\ call.op = "turn_off" /\ call.result = "ok"
    /\ call.brightness # None /\ call.color_temp_kelvin # None
    /\ desc = LightOnDescription
    /\ Len(call.sent) = 1

C14_OnlyValidKeysStored ==
    /\ [](\A l \in LightOnDeltas, b \in BrightnessDeltas, c \in ColortempDeltas :
            LET n == HandleServerUpdate(dev, l, b, c)
            IN  /\ n.brightness = IF b.kind = "num" THEN b ELSE dev.brightness
                /\ n.colortemp = IF c.kind = "num" THEN c ELSE dev.colortemp
                /\ dev.light_on.kind # "absent"
                      => n.light_on = IF l.kind = "bool" THEN l ELSE dev.light_on)
    /\ [](dev.light_on.kind # "absent"
            => HandleServerUpdate(dev, OnOffBool(FALSE), RawStr, DeltaAbsent)
                   = Device(OnOffBool(FALSE), dev.brightness, dev.colortemp))
    /\ [][ServerUpdate =>
            /\ dev'.brightness = dev.brightness \/ dev'.brightness.kind = "num"
            /\ dev'.colortemp = dev.colortemp \/ dev'.colortemp.kind = "num"
            /\ dev'.light_on = dev.light_on \/ dev'.light_on.kind = "bool"]_vars

\* C14, reached: the device stored a pushed brightness and a pushed on/off
\* while its color temperature, never validly pushed, is still unset.
C14_Witness ==
    /\ dev.light_on = OnOffBool(TRUE)
    /\ dev.brightness = RawNum(BrightnessMax)
    /\ dev.colortemp = RawNone

\* C15: brightness and color temperature start unset on a freshly loaded
\* device, a valid update sets them, and once set no step (a delta valid,
\* wrongly typed or lacking the key) makes them unset again.
C15_NoWayBackToUnset ==
    /\ dev.brightness = RawNone /\ dev.colortemp = RawNone
    /\ [](\A v \in BrightnessDeltas \cup ColortempDeltas :
            v.kind = "num" =>
                /\ HandleServerUpdate(dev, OnOffAbsent, v, DeltaAbsent).brightness = v
                /\ HandleServerUpdate(dev, OnOffAbsent, DeltaAbsent, v).colortemp = v)
    /\ [][/\ dev.brightness # RawNone => dev'.brightness.kind = "num"
          /\ dev.colortemp # RawNone => dev'.colortemp.kind = "num"
          /\ dev'.brightness.kind \in {"none", "num"}
          /\ dev'.colortemp.kind \in {"none", "num"}]_vars

\* C15, reached: both attributes hold a value.
C15_Witness ==
    /\ dev.brightness.kind = "num"
    /\ dev.colortemp.kind = "num"

\* C16: every coordinator update leaves the published on/off, brightness and
\* Kelvin equal to what the entity reads from the device as the pushes so
\* far, applied one after the other, left it, and emits one notification
\* when that changed a published value and none otherwise; a push by itself
\* publishes nothing.
C16_InOrderNoMerging ==
    /\ [][CoordinatorUpdate =>
            /\ Published' = Recomputed'
            /\ writes' = IF Published' # Published THEN 1 ELSE 0]_vars
    /\ [][ServerUpdate => UNCHANGED <<Published, writes>>]_vars

\* C16, reached: after a push that changed nothing host-visible, an update
\* emitted no notification, the snapshot of an earlier push still published.
C16_Witness ==
    /\ writes = 0
    /\ attr_is_on = Some(TRUE)
    /\ attr_brightness = Some(0)
    /\ dev.brightness = RawNum(BrightnessMin)
    /\ Published = Recomputed

\* The range has min = max.
Degenerate(range) == range # None /\ range[1] = range[2]

\* The Kelvin bounds of the descriptor are equal.
DegenerateKelvin(d) ==
    /\ KelvinBoundsSet(d)
    /\ d.ha_min_color_temp_kelvin = d.ha_max_color_temp_kelvin

\* C17: with a degenerate range nothing raises and the fallback is the one
\* defined: the brightness read with max = min gives 255 for a native value
\* >= min and 0 below it; the color temperature command with minK = maxK
\* carries minP whatever Kelvin was asked; the color temperature read with a
\* degenerate native or Kelvin range gives a Kelvin value within the bounds;
\* the brightness command with a degenerate native range carries min.
C17_DegenerateFallback ==
    /\ raised = "none"
    /\ call.result \in {"none", "running", "ok"}
    /\ (Degenerate(desc.pydreo_brightness_range) /\ dev.brightness.kind = "num")
          => Brightness(desc, supported_color_modes, dev)
                 = Return(Some(IF dev.brightness.num >= desc.pydreo_brightness_range[1]
                               THEN HaBrightnessMax ELSE 0))
    /\ Degenerate(desc.pydreo_brightness_range)
          => /\ call.brightness # None /\ call.pc = "idle"
                   => Cardinality(Sent(call, "brightness")) = 1
             /\ \A i \in Sent(call, "brightness") :
                   call.sent[i][2] = desc.pydreo_brightness_range[1]
    /\ (DegenerateKelvin(desc) \/ Degenerate(desc.pydreo_colortemp_range))
          => /\ call.color_temp_kelvin # None /\ call.pc = "idle"
                   => Cardinality(Sent(call, "colortemp")) = 1
             /\ \A i \in Sent(call, "colortemp") :
                   call.sent[i][2] = desc.pydreo_colortemp_range[1]
             /\ dev.colortemp.kind = "num"
                   => LET read == ColorTempKelvin(desc, supported_color_modes, dev)
                      IN  /\ read.err = "none"
                          /\ read.val # None
                          /\ read.val[1] >= desc.ha_min_color_temp_kelvin[1]
                          /\ read.val[1] <= desc.ha_max_color_temp_kelvin[1]

\* C17, reached: Kelvin bounds (2700,2700) and native range (0,100); a
\* Kelvin far above was asked and 0 was sent.
C17_Witness ==
    /\ DegenerateKelvin(desc)
    /\ desc.pydreo_colortemp_range = <<ColortempMin, ColortempMax>>
    /\ call.result = "ok"
    /\ call.color_temp_kelvin = Some(KelvinMax + 500)
    /\ call.sent[Len(call.sent)] = Command("colortemp", ColortempMin)

\* The Kelvin value the invocation of SpecKelvin asked for.
KelvinAsked == call.color_temp_kelvin[1]

\* The native color temperature that invocation sent.
NativeColortempSent == call.sent[2][2]

\* SpecKelvin: the invocation has sent its color temperature command.
ColortempWasSent ==
    call.op = "turn_on" /\ Len(call.sent) = 2 /\ call.sent[2][1] = "colortemp"

\* C18: for minK < maxK the color temperature sent for a Kelvin value lies
\* in [minP,maxP], is minP for Kelvin <= minK and maxP for Kelvin >= maxK,
\* is within half a unit of the straight line from (minK,minP) to
\* (maxK,maxP) in between, and no larger Kelvin value sends a smaller one.
C18_ClampedInterpolation ==
    ColortempWasSent =>
        LET min_k == desc.ha_min_color_temp_kelvin[1]
            max_k == desc.ha_max_color_temp_kelvin[1]
            pct_min == desc.pydreo_colortemp_range[1]
            pct_max == desc.pydreo_colortemp_range[2]
            line == (KelvinAsked - min_k) * (pct_max - pct_min)
                        + pct_min * (max_k - min_k)
        IN  /\ min_k < max_k
            /\ NativeColortempSent \in pct_min..pct_max
            /\ KelvinAsked <= min_k => NativeColortempSent = pct_min
            /\ KelvinAsked >= max_k => NativeColortempSent = pct_max
            /\ (KelvinAsked >= min_k /\ KelvinAsked <= max_k)
                  => 2 * Dist(NativeColortempSent * (max_k - min_k), line)
                         <= max_k - min_k
            /\ \A k2 \in KelvinRequests :
                  k2 >= KelvinAsked
                      => ToDeviceColorTemp(k2, desc.ha_min_color_temp_kelvin,
                                           desc.ha_max_color_temp_kelvin,
                                           desc.pydreo_colortemp_range).val
                             >= NativeColortempSent

\* C18, reached: the middle of 2700..6500 was asked on the native range
\* (0,100) and the middle of it was sent.
C18_Witness ==
    /\ ColortempWasSent
    /\ desc.pydreo_colortemp_range = <<ColortempMin, ColortempMax>>
    /\ desc.ha_max_color_temp_kelvin = Some(KelvinMax)
    /\ KelvinAsked = (KelvinMin + KelvinMax) \div 2
    /\ NativeColortempSent = (ColortempMin + ColortempMax) \div 2

\* C19: the color temperature read is null while the device's native value
\* is null; for a numeric native percentage, inside or outside the native
\* range, it is a Kelvin value in [minK,maxK], minK for a percentage at or
\* below minP, maxK for one above maxP and, when minP < maxP, at maxP; and
\* the coordinator update publishes nothing outside [minK,maxK].
C19_KelvinRead ==
    LET read == ColorTempKelvin(desc, supported_color_modes, dev)
        min_k == desc.ha_min_color_temp_kelvin[1]
        max_k == desc.ha_max_color_temp_kelvin[1]
        pct_min == desc.pydreo_colortemp_range[1]
        pct_max == desc.pydreo_colortemp_range[2]
        v == dev.colortemp.num
    IN  /\ dev.colortemp = RawNone => read = Return(None)
        /\ dev.colortemp.kind = "num"
              => /\ read.err = "none"
                 /\ read.val # None
                 /\ read.val[1] \in min_k..max_k
                 /\ v <= pct_min => read.val[1] = min_k
                 /\ v > pct_max => read.val[1] = max_k
                 /\ (pct_min < pct_max /\ v = pct_max) => read.val[1] = max_k
        /\ attr_color_temp_kelvin # None
              => attr_color_temp_kelvin[1] \in min_k..max_k

\* C19, reached: the device reported a percentage above the native range
\* (0,100) and the update published 6500 K.
C19_Witness ==
    /\ desc.pydreo_colortemp_range = <<ColortempMin, ColortempMax>>
    /\ dev.colortemp = RawNum(ColortempMax + 1)
    /\ attr_color_temp_kelvin = Some(KelvinMax)

\* What the host reads: is_on, brightness, color_temp_kelvin.
Reads ==
    <<IsOn(dev),
      Brightness(desc, supported_color_modes, dev),
      ColorTempKelvin(desc, supported_color_modes, dev)>>

\* C20: in every reachable state is_on is true exactly when the device's
\* on/off attribute is the string "on" in any case or a true non-string
\* value (false when the attribute is missing); a step that changes neither
\* the device nor the descriptor changes none of the three reads, whatever
\* it does to the cached snapshot; and right after a coordinator update
\* is_on equals the published _attr_is_on.
C20_ReadsFromDevice ==
    /\ [](IsOn(dev) = (\/ /\ dev.light_on.kind = "str"
                          /\ dev.light_on.s \in {"on", "ON", "On"}
                       \/ /\ dev.light_on.kind = "bool"
                          /\ dev.light_on.b))
    /\ [][UNCHANGED <<dev, desc, supported_color_modes>> => UNCHANGED Reads]_vars
    /\ [][CoordinatorUpdate => attr_is_on' = Some(IsOn(dev'))]_vars

\* C20, reached: the cached _attr_is_on says on, published from the string
\* "ON", while the device, pushed off since, reads off.
C20_Witness ==
    /\ attr_is_on = Some(TRUE)
    /\ dev.light_on = OnOffBool(FALSE)
    /\ ~IsOn(dev)

\* C21: the entity is available exactly when the base device is available
\* and the device object has the control attribute: never when the base is
\* unavailable, and not on a device lacking the attribute even when the base
\* is available.
C21_Available ==
    /\ ~Available(FALSE, dev)
    /\ dev.light_on.kind = "absent" => ~Available(TRUE, dev)
    /\ dev.light_on.kind # "absent" => Available(TRUE, dev)

\* C21, reached: an entity on a device without the control attribute, which
\* a coordinator update read as off, is unavailable though the base is
\* available.
C21_Witness ==
    /\ dev.light_on.kind = "absent"
    /\ attr_is_on = Some(FALSE)
    /\ ~Available(TRUE, dev)

\* The (device, light feature) pairs such that the device has the feature's
\* control attribute.
MatchingPairs ==
    { pr \in (1..Len(platform.devices)) \X (1..Len(SupportedLightFeatures)) :
        SupportedLightFeatures[pr[2]].pydreo_light_attr \in platform.devices[pr[1]] }

\* C22: once async_setup_entry has run, async_add_entities was called once,
\* with exactly one entity for each (device, light feature) pair whose
\* device has the feature's control attribute, or not at all when there is
\* no such pair.
C22_OneEntityPerPair ==
    platform.pc = "done" =>
        IF MatchingPairs = {}
        THEN platform.add_entities = <<>>
        ELSE /\ Len(platform.add_entities) = 1
             /\ Len(platform.add_entities[1]) = Cardinality(MatchingPairs)
             /\ { platform.add_entities[1][j] : j \in 1..Len(platform.add_entities[1]) }
                    = { [device |-> pr[1], key |-> SupportedLightFeatures[pr[2]].key] :
                          pr \in MatchingPairs }

\* C22, reached: a manager with a device that has both control attributes
\* and one that has neither; one call registered two entities.
C22_Witness ==
    /\ platform.pc = "done"
    /\ Len(platform.devices) = 2
    /\ platform.devices[1] = {"light_on", "ledpotkepton"}
    /\ platform.devices[2] = {}
    /\ Len(platform.add_entities) = 1
    /\ Len(platform.add_entities[1]) = 2

\* The attributes an invocation sets, in the order of the code: on/off, then
\* brightness when requested and configured, then color temperature when
\* requested and configured.
ExpectedCalls(c) ==
    IF c.op = "turn_on"
    THEN <<"light_on">>
            \o (IF desc.pydreo_brightness_cmd /\ c.brightness # None
                THEN <<"brightness">> ELSE <<>>)
            \o (IF desc.pydreo_colortemp_cmd /\ c.color_temp_kelvin # None
                THEN <<"colortemp">> ELSE <<>>)
    ELSE IF c.op = "turn_off" THEN <<"light_on">> ELSE <<>>

\* The attributes of the commands the invocation issued, in order.
IssuedCalls(c) == [i \in 1..Len(c.sent) |-> c.sent[i][1]]

IsPrefix(s, t) == Len(s) <= Len(t) /\ s = SubSeq(t, 1, Len(s))

\* The commands of c were issued in order, none twice, and all of them when
\* the invocation returned normally.
InOrder(c) ==
    /\ IsPrefix(IssuedCalls(c), ExpectedCalls(c))
    /\ c.result = "ok" => IssuedCalls(c) = ExpectedCalls(c)
    /\ c.result = "running" <=> c.pc # "idle"

\* One step of an invocation from c to d: a finished invocation issues
\* nothing more (the next change is a new invocation, up to its first
\* await), and a running one issues at most one command, after the
\* commands it issued before.
OneAtATime(c, d) ==
    d # c =>
        IF c.pc = "idle"
        THEN d.pc # "idle" /\ Len(d.sent) = 1
        ELSE /\ IsPrefix(c.sent, d.sent)
             /\ Len(d.sent) <= Len(c.sent) + 1
             /\ d.result # "running" => d.sent = c.sent
             /\ d.op = c.op /\ d.brightness = c.brightness
             /\ d.color_temp_kelvin = c.color_temp_kelvin

\* C23: the commands of one invocation are issued one at a time in the order
\* on/off, brightness (if requested and configured), color temperature (if
\* requested and configured), none twice; an invocation whose command failed
\* issues no further command; and a step of the other invocation or a
\* coordinator update leaves the commands of an invocation as they are.
C23_SequentialInOrder ==
    /\ [](InOrder(call) /\ InOrder(other_call))
    /\ [][/\ OneAtATime(call, call')
          /\ OneAtATime(other_call, other_call')
          /\ other_call' # other_call => call' = call
          /\ call' # call => other_call' = other_call
          /\ (attr_is_on' # attr_is_on \/ writes' # writes)
                => (call' = call /\ other_call' = other_call)]_vars

\* C23, reached: the brightness command of an invocation that also asked for
\* a color temperature failed, after a coordinator update, while another
\* invocation waits on its own brightness command.
C23_Witness ==
    /\ desc = LightOnDescription
    /\ call.result = "TransportError"
    /\ call.color_temp_kelvin # None
    /\ IssuedCalls(call) = <<"light_on", "brightness">>
    /\ other_call.pc = "brightness_sent"
    /\ attr_is_on = Some(FALSE)

\* C24: right after a coordinator update the published on/off is the
\* device's, the published brightness is the brightness read when BRIGHTNESS
\* is the supported mode, the published color temperature is the Kelvin read
\* when COLOR_TEMP is the supported mode, and one more update on the same
\* device state would emit no notification and leave every value as it is;
\* on an ONOFF-only light the cached brightness and color temperature are
\* null in every state.
C24_IdempotentUpdate ==
    /\ [][CoordinatorUpdate =>
            /\ attr_is_on' = Some(IsOn(dev'))
            /\ "brightness" \in supported_color_modes' =>
                   attr_brightness' = Brightness(desc', supported_color_modes', dev').val
            /\ "color_temp" \in supported_color_modes' =>
                   attr_color_temp_kelvin'
                      = ColorTempKelvin(desc', supported_color_modes', dev').val
            /\ HandleCoordinatorUpdate'
                  = [is_on |-> attr_is_on',
                     brightness |-> attr_brightness',
                     color_temp_kelvin |-> attr_color_temp_kelvin',
                     raised |-> "none",
                     writes |-> 0]]_vars
    /\ [](supported_color_modes = {"onoff"} =>
            attr_brightness = None /\ attr_color_temp_kelvin = None)

\* C24, reached: a color-temperature light whose last update found nothing
\* changed, the Kelvin value of an earlier update still published.
C24_Witness ==
    /\ supported_color_modes = {"color_temp"}
    /\ writes = 0
    /\ attr_color_temp_kelvin = Some(KelvinMax)
    /\ attr_is_on = Some(TRUE)
    /\ dev.colortemp = RawNum(ColortempMax)

\* C25: async_turn_on, its executor jobs succeeding, returns normally for
\* every descriptor and every combination of options: no invocation ends
\* with an exception.
C25_TurnOnNeverRaises ==
    call.op = "turn_on" => call.result \in {"running", "ok"}

\* The brightness read of the entity were the device to hold the native
\* value v.
BrightnessReadOf(v) ==
    Brightness(desc, supported_color_modes, [dev EXCEPT !.brightness = RawNum(v)]).val

\* C26: for a native range with min < max, the native value sent for host
\* brightness b is no greater than the one sent for b + 1 (so the value sent
\* is non-decreasing over 0..255); and the brightness read of a numeric
\* native value v, inside or outside the range, lies in 0..255, is no
\* greater than the read of v + 1, is 0 for v = min and 255 for v = max.
C26_BoundedMonotone ==
    LET range == desc.pydreo_brightness_range
        host == Brightness(desc, supported_color_modes, dev).val
    IN  /\ range[1] < range[2]
        /\ (BrightnessWasSent /\ HostBrightnessAsked < HaBrightnessMax) =>
               NativeBrightnessSent
                  <= ToDeviceBrightness(HostBrightnessAsked + 1, range)
        /\ dev.brightness.kind = "num" =>
               /\ host # None
               /\ host[1] \in 0..HaBrightnessMax
               /\ host[1] <= BrightnessReadOf(dev.brightness.num + 1)[1]
               /\ dev.brightness.num = range[1] => host[1] = 0
               /\ dev.brightness.num = range[2] => host[1] = HaBrightnessMax

\* C26, reached: host brightness 128 was sent on a light of range (1,100)
\* and the device reports a native value above the range, read as 255.
C26_Witness ==
    /\ desc.pydreo_brightness_range = <<BrightnessMin, BrightnessMax>>
    /\ BrightnessWasSent
    /\ HostBrightnessAsked = 128
    /\ dev.brightness = RawNum(BrightnessMax + MaxOutside)
    /\ Brightness(desc, supported_color_modes, dev).val = Some(HaBrightnessMax)

====
